---- MODULE Spec2Model ----
(***************************************************************************)
(* Model of the two pipeline scripts of the repository:                    *)
(*   src/data/input_data/abc.py            (called "abc" below)            *)
(*   src/data/input_data/import gzip.py    (called "gzip" below)           *)
(* Both define load_gzipped_json, convert_oid, convert_date and            *)
(* apply_conversions with the same code; abc.py adds convert_cpg.          *)
(*                                                                         *)
(* Python values are tagged records, a file is a sequence of lines, and a  *)
(* line is a sequence of lexical tokens on which json.loads is computed by *)
(* a recursive-descent parser.                                             *)
(***************************************************************************)
EXTENDS Integers, Sequences, FiniteSets, TLC

VARIABLES
    pc,          \* position of the running script / call
    script,      \* "abc" or "gzip": which of the two source files runs
    tz,          \* UTC offset (seconds) of the local time zone of the process
    file_path,   \* argument of load_gzipped_json
    lines,       \* decompressed content of the file, line by line
    df,          \* value returned by the call under study
    value,       \* argument of a per-value conversion
    out,         \* result of a per-value conversion
    table,       \* argument of apply_conversions
    inputs,      \* the three source files of a pipeline run
    glob,        \* the scripts' module-level names (name -> object)
    dataframes,  \* the scripts' dict `dataframes` (name -> object)
    loop,        \* keys of `dataframes` still to convert, in dict order
    exc          \* "none", or the exception that ended the run

vars == <<pc, script, tz, file_path, lines, df, value, out, table, inputs,
          glob, dataframes, loop, exc>>

(***************************************************************************)
(* Python values                                                           *)
(***************************************************************************)
Str(s) == [t |-> "str", s |-> s]
Num(n) == [t |-> "int", n |-> n]
None == [t |-> "null"]
NaN == [t |-> "nan"]
Dict(d) == [t |-> "dict", d |-> d]
List(l) == [t |-> "list", l |-> l]
\* a naive datetime: its wall-clock reading counted in seconds from
\* 1970-01-01 00:00:00 of the same wall clock, plus microseconds
Datetime(wall, us) == [t |-> "datetime", wall |-> wall, us |-> us]
\* an exception propagating out of a call
Raise(e) == [t |-> "raise", e |-> e]

EmptyMap == [k \in {} |-> None]

isdict(v) == v.t = "dict"
IsRaise(v) == v.t = "raise"
\* `k in value` for a dict value
HasKey(v, k) == k \in DOMAIN v.d

(***************************************************************************)
(* Tokens of a text line                                                   *)
(***************************************************************************)
P(s) == [k |-> "punct", s |-> s, n |-> 0]
S(s) == [k |-> "string", s |-> s, n |-> 0]
N(n) == [k |-> "number", s |-> "", n |-> n]
W(s) == [k |-> "word", s |-> s, n |-> 0]
WS == [k |-> "space", s |-> " ", n |-> 0]

RECURSIVE SkipWs(_)
SkipWs(toks) ==
    IF toks # <<>> /\ Head(toks).k = "space" THEN SkipWs(Tail(toks)) ELSE toks

\* line.strip(): leading and trailing white space removed
RECURSIVE StripRight(_)
StripRight(toks) ==
    IF toks # <<>> /\ toks[Len(toks)].k = "space"
    THEN StripRight(SubSeq(toks, 1, Len(toks) - 1))
    ELSE toks

strip(line) == StripRight(SkipWs(line))

(***************************************************************************)
(* json.loads                                                              *)
(***************************************************************************)
ParseFail == [ok |-> FALSE, val |-> None, rest |-> <<>>]
ParseOk(v, rest) == [ok |-> TRUE, val |-> v, rest |-> rest]

RECURSIVE ParseValue(_), ParseMembers(_, _), ParseElems(_, _)

ParseValue(toks0) ==
    LET toks == SkipWs(toks0) IN
    IF toks = <<>> THEN ParseFail
    ELSE LET h == Head(toks)
             r == Tail(toks)
         IN  CASE h.k = "string" -> ParseOk(Str(h.s), r)
               [] h.k = "number" -> ParseOk(Num(h.n), r)
               [] h.k = "word" /\ h.s = "null" -> ParseOk(None, r)
               [] h.k = "punct" /\ h.s = "{" ->
                    LET r1 == SkipWs(r) IN
                    IF r1 # <<>> /\ Head(r1) = P("}")
                    THEN ParseOk(Dict(EmptyMap), Tail(r1))
                    ELSE ParseMembers(r1, EmptyMap)
               [] h.k = "punct" /\ h.s = "[" ->
                    LET r1 == SkipWs(r) IN
                    IF r1 # <<>> /\ Head(r1) = P("]")
                    THEN ParseOk(List(<<>>), Tail(r1))
                    ELSE ParseElems(r1, <<>>)
               [] OTHER -> ParseFail

\* members of an object after "{" or ",": key ":" value, then "," or "}";
\* a repeated key keeps its last value
ParseMembers(toks0, acc) ==
    LET toks == SkipWs(toks0) IN
    IF toks = <<>> \/ Head(toks).k # "string" THEN ParseFail
    ELSE LET key == Head(toks).s
             r1 == SkipWs(Tail(toks))
         IN  IF r1 = <<>> \/ Head(r1) # P(":") THEN ParseFail
             ELSE LET pv == ParseValue(Tail(r1)) IN
                  IF ~pv.ok THEN ParseFail
                  ELSE LET acc1 == (key :> pv.val) @@ acc
                           r2 == SkipWs(pv.rest)
                       IN  IF r2 = <<>> THEN ParseFail
                           ELSE IF Head(r2) = P("}")
                                THEN ParseOk(Dict(acc1), Tail(r2))
                           ELSE IF Head(r2) = P(",")
                                THEN ParseMembers(Tail(r2), acc1)
                           ELSE ParseFail

\* elements of an array after "[" or ",": value, then "," or "]"
ParseElems(toks0, acc) ==
    LET pv == ParseValue(toks0) IN
    IF ~pv.ok THEN ParseFail
    ELSE LET acc1 == Append(acc, pv.val)
             r2 == SkipWs(pv.rest)
         IN  IF r2 = <<>> THEN ParseFail
             ELSE IF Head(r2) = P("]") THEN ParseOk(List(acc1), Tail(r2))
             ELSE IF Head(r2) = P(",") THEN ParseElems(Tail(r2), acc1)
             ELSE ParseFail

\* json.loads(text): the value, or JSONDecodeError (a ValueError) when the
\* text is not one JSON value followed only by white space
json_loads(text) ==
    LET pv == ParseValue(text) IN
    IF pv.ok /\ SkipWs(pv.rest) = <<>> THEN pv.val ELSE Raise("JSONDecodeError")

(***************************************************************************)
(* pandas objects                                                          *)
(***************************************************************************)
\* a DataFrame: its column labels and its rows in index order, each row a
\* function from the column labels to cell values
Frame(cols, rows) == [t |-> "DataFrame", columns |-> cols, rows |-> rows]
\* a Series: its name and its values in index order
Series(name, vals) == [t |-> "Series", name |-> name, vals |-> vals]

isframe(v) == v.t = "DataFrame"

SeqRange(s) == {s[i] : i \in 1..Len(s)}

\* DataFrameOf with the columns taken from the first record alone
DataFrameOfFirstKeys(data) ==
    IF data = <<>> THEN Frame({}, <<>>)
    ELSE IF isdict(Head(data))
    THEN IF \E i \in 1..Len(data) : ~isdict(data[i])
         THEN Raise("AttributeError")
         ELSE LET cols == DOMAIN Head(data).d
              IN  Frame(cols, [i \in 1..Len(data) |->
                        [c \in cols |-> IF HasKey(data[i], c)
                                        THEN data[i].d[c] ELSE NaN]])
    ELSE Frame({"0"}, [i \in 1..Len(data) |-> [c \in {"0"} |-> data[i]]])

\* pd.DataFrame(data) for a list of parsed JSON values.  A list whose first
\* element is a dict is a list of records: the columns are the union of the
\* keys, a key a record lacks is NaN, and an element that is no dict has no
\* .keys() (AttributeError).  A list whose first element is a scalar is one
\* column, labelled 0 (written "0"), of the elements as they are.
DataFrameOf(data) ==
    IF data = <<>> THEN Frame({}, <<>>)
    ELSE IF isdict(Head(data))
    THEN IF \E i \in 1..Len(data) : ~isdict(data[i])
         THEN Raise("AttributeError")
         ELSE LET cols == UNION {DOMAIN data[i].d : i \in 1..Len(data)}
              IN  Frame(cols, [i \in 1..Len(data) |->
                        [c \in cols |-> IF HasKey(data[i], c)
                                        THEN data[i].d[c] ELSE NaN]])
    ELSE Frame({"0"}, [i \in 1..Len(data) |-> [c \in {"0"} |-> data[i]]])

\* pd.DataFrame(series): one column, labelled with the name of the series
FrameOfSeries(s) ==
    Frame({s.name}, [i \in 1..Len(s.vals) |-> [c \in {s.name} |-> s.vals[i]]])

\* frame[col]: the column as a Series, KeyError when there is none
GetColumn(frame, col) ==
    IF col \in frame.columns
    THEN Series(col, [i \in 1..Len(frame.rows) |-> frame.rows[i][col]])
    ELSE Raise("KeyError")

\* DropColumn that returns the frame as it is
DropColumnKeepsAll(frame, col) == frame

\* frame.drop(col, axis=1): a new frame without the column
DropColumn(frame, col) ==
    IF col \in frame.columns
    THEN Frame(frame.columns \ {col},
               [i \in 1..Len(frame.rows) |->
                   [c \in frame.columns \ {col} |-> frame.rows[i][c]]])
    ELSE Raise("KeyError")

(***************************************************************************)
(* load_gzipped_json                                                       *)
(***************************************************************************)
\* pd.read_json(path, compression='gzip', lines=True): pandas strips every
\* line, drops the empty ones, joins the rest with "," inside "[" "]" and
\* parses that text as one JSON array (ValueError when it is none); the
\* elements become the rows of the frame
RECURSIVE JoinLines(_)
JoinLines(ls) ==
    IF ls = <<>> THEN <<>>
    ELSE IF strip(Head(ls)) = <<>> THEN JoinLines(Tail(ls))
    ELSE LET rest == JoinLines(Tail(ls)) IN
         IF rest = <<>> THEN strip(Head(ls))
         ELSE strip(Head(ls)) \o <<P(",")>> \o rest

read_json(ls) ==
    LET v == json_loads(<<P("[")>> \o JoinLines(ls) \o <<P("]")>>) IN
    IF IsRaise(v) THEN Raise("ValueError") ELSE DataFrameOf(v.l)

\* file_path.split("/")[-1]
RECURSIVE LastSegment(_)
LastSegment(path) ==
    IF \E i \in 1..Len(path) : path[i] = P("/")
    THEN LastSegment(Tail(path))
    ELSE path

\* text.replace(".gz", "")
RECURSIVE RemoveGz(_)
RemoveGz(toks) ==
    IF toks = <<>> THEN <<>>
    ELSE IF Head(toks) = W(".gz") THEN RemoveGz(Tail(toks))
    ELSE <<Head(toks)>> \o RemoveGz(Tail(toks))

base_name(path) == RemoveGz(LastSegment(path))

startswith(line, prefix) ==
    /\ Len(line) >= Len(prefix)
    /\ SubSeq(line, 1, Len(prefix)) = prefix

\* KeepLine with the `not` before startswith lost
KeepLineNegationLost(line, base) == strip(line) # <<>> /\ startswith(line, base)

\* the fallback loop's test of a line: not blank, and no header line
KeepLine(line, base) == strip(line) # <<>> /\ ~startswith(line, base)

\* the fallback loop: `data` after the lines `ls`
RECURSIVE FallbackData(_, _, _)
FallbackData(ls, base, data) ==
    IF ls = <<>> THEN data
    ELSE LET line == Head(ls)
             v == json_loads(line)
         IN  IF KeepLine(line, base) /\ ~IsRaise(v)
             THEN FallbackData(Tail(ls), base, Append(data, v))
             ELSE FallbackData(Tail(ls), base, data)

\* The isinstance(df, pd.Series) tests of "import gzip.py" never hold:
\* read_json (typ='frame') and pd.DataFrame return frames.
load_gzipped_json(path, ls) ==
    LET r == read_json(ls) IN
    IF r = Raise("ValueError")
    THEN DataFrameOf(FallbackData(ls, base_name(path), <<>>))
    ELSE r

(***************************************************************************)
(* Per-value conversions                                                   *)
(***************************************************************************)
convert_oid(v) ==
    IF isdict(v) /\ HasKey(v, "$oid") THEN v.d["$oid"] ELSE v

\* datetime.datetime.fromtimestamp(ms / 1000): the naive local time of the
\* instant, which reads tzo seconds ahead of the UTC clock
fromtimestamp_ms(ms, tzo) == Datetime((ms \div 1000) + tzo, (ms % 1000) * 1000)

\* value['$date'] / 1000 is a TypeError unless the payload is a number
convert_date(v, tzo) ==
    IF isdict(v) /\ HasKey(v, "$date")
    THEN IF v.d["$date"].t = "int"
         THEN fromtimestamp_ms(v.d["$date"].n, tzo)
         ELSE Raise("TypeError")
    ELSE v

\* convert_cpg without the unwrapping of a nested {"$oid": ...}
convert_cpg_keeps_id(v) ==
    IF isdict(v) /\ HasKey(v, "$id") /\ HasKey(v, "$ref")
    THEN Dict(("cpg_id" :> v.d["$id"]) @@ ("cpg_ref" :> v.d["$ref"]))
    ELSE v

convert_cpg(v) ==
    IF isdict(v) /\ HasKey(v, "$id") /\ HasKey(v, "$ref")
    THEN LET cpg_id == IF isdict(v.d["$id"]) /\ HasKey(v.d["$id"], "$oid")
                       THEN v.d["$id"].d["$oid"]
                       ELSE v.d["$id"]
             cpg_ref == v.d["$ref"]
         IN  Dict(("cpg_id" :> cpg_id) @@ ("cpg_ref" :> cpg_ref))
    ELSE v

(***************************************************************************)
(* apply_conversions                                                       *)
(***************************************************************************)
oid_columns == <<"_id", "userId", "brand_id">>
date_columns == <<"createdDate", "lastLogin", "purchaseDate", "dateScanned",
                  "finishedDate", "modifyDate", "pointsAwardedDate">>

\* the (column, conversion) pairs in the order the function visits them;
\* only abc.py converts 'cpg'
ConversionSteps(scr) ==
    [i \in 1..Len(oid_columns) |-> [col |-> oid_columns[i], kind |-> "oid"]]
    \o [i \in 1..Len(date_columns) |-> [col |-> date_columns[i], kind |-> "date"]]
    \o (IF scr = "abc" THEN <<[col |-> "cpg", kind |-> "cpg"]>> ELSE <<>>)

Convert(kind, v, tzo) ==
    CASE kind = "oid" -> convert_oid(v)
      [] kind = "date" -> convert_date(v, tzo)
      [] kind = "cpg" -> convert_cpg(v)

\* frame[col] = frame[col].apply(f), in place
SetColumn(frame, col, vals) ==
    Frame(frame.columns,
          [i \in 1..Len(frame.rows) |-> [frame.rows[i] EXCEPT ![col] = vals[i]]])

\* the loops over the configured columns: a column the frame lacks is
\* skipped; an exception of a conversion leaves the loops with the columns
\* assigned so far
RECURSIVE ApplySteps(_, _, _)
ApplySteps(frame, steps, tzo) ==
    IF steps = <<>> THEN [exc |-> "none", df |-> frame]
    ELSE LET st == Head(steps) IN
         IF st.col \notin frame.columns
         THEN ApplySteps(frame, Tail(steps), tzo)
         ELSE LET vals == [i \in 1..Len(frame.rows) |->
                              Convert(st.kind, frame.rows[i][st.col], tzo)]
              IN  IF \E i \in 1..Len(vals) : IsRaise(vals[i])
                  THEN LET i == CHOOSE j \in 1..Len(vals) :
                                   /\ IsRaise(vals[j])
                                   /\ \A k \in 1..(j - 1) : ~IsRaise(vals[k])
                       IN  [exc |-> vals[i].e, df |-> frame]
                  ELSE ApplySteps(SetColumn(frame, st.col, vals), Tail(steps), tzo)

\* apply_conversions that applies convert_oid to every column first,
\* configured or not
RECURSIVE OidEverywhere(_, _)
OidEverywhere(frame, cols) ==
    IF cols = {} THEN frame
    ELSE LET c == CHOOSE x \in cols : TRUE IN
         OidEverywhere(
             SetColumn(frame, c, [i \in 1..Len(frame.rows) |->
                                     convert_oid(frame.rows[i][c])]),
             cols \ {c})

apply_conversions_every_column(obj, scr, tzo) ==
    IF ~isframe(obj) THEN [exc |-> "AttributeError", df |-> obj]
    ELSE ApplySteps(OidEverywhere(obj, obj.columns), ConversionSteps(scr), tzo)

\* apply_conversions(df): the outcome and the object, which is changed in
\* place and returned.  A Series has no attribute `columns`.
apply_conversions(obj, scr, tzo) ==
    IF ~isframe(obj) THEN [exc |-> "AttributeError", df |-> obj]
    ELSE ApplySteps(obj, ConversionSteps(scr), tzo)

(***************************************************************************)
(* Inputs                                                                  *)
(***************************************************************************)
MaxLines == 3
MaxRows == 2

\* the sequences over `pool` of length at most n
SeqsUpTo(pool, n) == UNION {[1..k -> pool] : k \in 0..n}

PathOf(name) == <<W("data"), P("/"), W("input_data"), P("/"), W(name), W(".gz")>>

file_paths == [receipts |-> PathOf("receipts.json"),
               users |-> PathOf("users.json"),
               brands |-> PathOf("brands.json")]

\* text lines: objects, a truncated object, a blank line, the header lines
\* users.json and users.json.gz, a bare number, two objects on one line
LineObjA == <<P("{"), S("a"), P(":"), N(1), P("}")>>
LineObjAB == <<P("{"), S("a"), P(":"), N(2), P(","), WS, S("b"), P(":"), S("x"), P("}")>>
LineObjId == <<P("{"), S("_id"), P(":"), P("{"), S("$oid"), P(":"), S("abc123"),
               P("}"), P("}")>>
LineTruncated == <<P("{"), S("a"), P(":"), N(1)>>
LineBlank == <<WS>>
LineHeader == <<W("users.json")>>
LineHeaderGz == <<W("users.json"), W(".gz")>>
LineNumber == <<N(5)>>
LineTwoObjects == LineObjA \o <<P(",")>> \o LineObjId

LinePool == {LineObjA, LineObjAB, LineObjId, LineTruncated, LineBlank,
             LineHeader, LineHeaderGz, LineNumber, LineTwoObjects}

\* the offsets of the local time zone from UTC, in seconds
TzOffsets == {0, -18000}

\* cell values: plain ones, the three encoded shapes, and partial matches
Oid(s) == Dict("$oid" :> Str(s))
Date(n) == Dict("$date" :> Num(n))
Ref(id, r) == Dict(("$id" :> id) @@ ("$ref" :> Str(r)))

DateMillis == {0, 999, 1500, 86400000, 1609687531}

ValuePool ==
    {Str("abc123"), Num(7), None, NaN, Dict(EmptyMap), Dict("k" :> Str("v")),
     List(<<Oid("abc123")>>),
     Oid("abc123"), Oid("def456"),
     Dict(("$oid" :> Str("abc123")) @@ ("k" :> Num(1))),
     Dict("$oid" :> Num(5)),
     Dict("$date" :> Str("2021-01-03T12:25:31Z")), Dict("$date" :> None),
     Dict("$date" :> Date(1500)),
     Dict(("$date" :> Num(1500)) @@ ("k" :> Num(1))),
     Ref(Oid("abc123"), "Cogs"), Ref(Str("def456"), "Cpgs"),
     Dict("$id" :> Oid("abc123")), Dict("$ref" :> Str("Cogs")),
     Dict(("$id" :> Oid("abc123")) @@ ("$ref" :> Str("Cogs")) @@ ("k" :> Num(1)))}
    \cup {Date(n) : n \in DateMillis}

\* records of a table handed to apply_conversions
RecordPool ==
    {Dict(("_id" :> Oid("abc123")) @@ ("name" :> Str("x"))),
     Dict(("_id" :> Str("plain")) @@ ("createdDate" :> Date(1500))),
     Dict(("cpg" :> Ref(Oid("abc123"), "Cogs")) @@ ("name" :> Oid("def456"))),
     Dict(("createdDate" :> Dict("$date" :> Str("2021-01-03"))) @@ ("_id" :> Oid("def456"))),
     Dict(("userId" :> Oid("def456")) @@ ("cpg" :> Str("plain"))),
     Dict(("lastLogin" :> Date(999)) @@ ("extra" :> Date(0)))}

Idle == None
NoFiles == [receipts |-> <<>>, users |-> <<>>, brands |-> <<>>]

(***************************************************************************)
(* A call of load_gzipped_json on a file                                   *)
(***************************************************************************)
InitLoad ==
    /\ pc = "load.call"
    /\ file_path \in {file_paths[n] : n \in DOMAIN file_paths}
    /\ lines \in SeqsUpTo(LinePool, MaxLines)
    /\ script = "abc" /\ tz = 0
    /\ df = Idle /\ value = Idle /\ out = Idle /\ table = Idle
    /\ inputs = NoFiles /\ glob = EmptyMap /\ dataframes = EmptyMap
    /\ loop = <<>> /\ exc = "none"

CallLoad ==
    /\ pc = "load.call"
    /\ df' = load_gzipped_json(file_path, lines)
    /\ pc' = "load.done"
    /\ UNCHANGED <<script, tz, file_path, lines, value, out, table, inputs,
                   glob, dataframes, loop, exc>>

NextLoad == CallLoad

SpecLoad == InitLoad /\ [][NextLoad]_vars

(***************************************************************************)
(* A call of a per-value conversion                                        *)
(***************************************************************************)
InitConvert ==
    /\ pc = "convert.call"
    /\ value \in ValuePool
    /\ tz \in TzOffsets
    /\ script = "abc"
    /\ file_path = <<>> /\ lines = <<>>
    /\ df = Idle /\ out = Idle /\ table = Idle
    /\ inputs = NoFiles /\ glob = EmptyMap /\ dataframes = EmptyMap
    /\ loop = <<>> /\ exc = "none"

ConvertFrame == <<script, tz, file_path, lines, df, value, table, inputs,
                  glob, dataframes, loop, exc>>

CallConvertOid ==
    /\ pc = "convert.call"
    /\ out' = convert_oid(value)
    /\ pc' = "convert_oid.done"
    /\ UNCHANGED ConvertFrame

CallConvertDate ==
    /\ pc = "convert.call"
    /\ out' = convert_date(value, tz)
    /\ pc' = "convert_date.done"
    /\ UNCHANGED ConvertFrame

CallConvertCpg ==
    /\ pc = "convert.call"
    /\ out' = convert_cpg(value)
    /\ pc' = "convert_cpg.done"
    /\ UNCHANGED ConvertFrame

NextConvert == CallConvertOid \/ CallConvertDate \/ CallConvertCpg

SpecConvert == InitConvert /\ [][NextConvert]_vars

(***************************************************************************)
(* A call of apply_conversions on a table                                  *)
(***************************************************************************)
InitApply ==
    /\ pc = "apply.call"
    /\ script \in {"abc", "gzip"}
    /\ tz \in TzOffsets
    /\ table \in {DataFrameOf(d) : d \in SeqsUpTo(RecordPool, MaxRows)}
    /\ file_path = <<>> /\ lines = <<>>
    /\ df = Idle /\ value = Idle /\ out = Idle
    /\ inputs = NoFiles /\ glob = EmptyMap /\ dataframes = EmptyMap
    /\ loop = <<>> /\ exc = "none"

\* `table` keeps the argument as it was before the call; df is the object
\* after it
CallApplyConversions ==
    /\ pc = "apply.call"
    /\ LET r == apply_conversions(table, script, tz) IN
         /\ df' = r.df
         /\ exc' = r.exc
    /\ pc' = "apply.done"
    /\ UNCHANGED <<script, tz, file_path, lines, value, out, table, inputs,
                   glob, dataframes, loop>>

NextApply == CallApplyConversions

SpecApply == InitApply /\ [][NextApply]_vars

(***************************************************************************)
(* The two scripts, from their first load to their last print              *)
(***************************************************************************)
Obj2(k1, v1, k2, v2) ==
    <<P("{"), S(k1), P(":")>> \o v1 \o <<P(","), S(k2), P(":")>> \o v2 \o <<P("}")>>
Obj1(k1, v1) == <<P("{"), S(k1), P(":")>> \o v1 \o <<P("}")>>
OidText(s) == Obj1("$oid", <<S(s)>>)

\* lines of receipts.json, users.json and brands.json
ReceiptWithItems ==
    Obj2("_id", OidText("r1"),
         "rewardsReceiptItemList",
         <<P("[")>> \o Obj1("barcode", <<S("b1")>>) \o <<P("]")>>)
ReceiptDated == Obj2("_id", OidText("r2"), "createdDate", Obj1("$date", <<N(1500)>>))
ReceiptListOnly ==
    Obj1("rewardsReceiptItemList",
         <<P("[")>> \o Obj1("barcode", <<S("b2")>>) \o <<P("]")>>)
UserLine == Obj2("_id", OidText("u1"), "lastLogin", Obj1("$date", <<N(999)>>))
BrandWithOidRef ==
    Obj2("_id", OidText("b1"),
         "cpg", Obj2("$id", OidText("c1"), "$ref", <<S("Cogs")>>))
BrandWithStrRef ==
    Obj2("cpg", Obj2("$id", <<S("c2")>>, "$ref", <<S("Cpgs")>>), "name", <<S("n")>>)
BrandPlain == Obj1("name", <<S("n")>>)

ReceiptsFiles == {<<ReceiptWithItems, ReceiptDated>>,
                  <<ReceiptDated, ReceiptListOnly>>,
                  <<<<W("receipts.json"), W(".gz")>>, ReceiptWithItems>>,
                  <<ReceiptDated>>}
UsersFiles == {<<UserLine>>, <<LineHeaderGz, UserLine, LineTruncated>>}
BrandsFiles == {<<BrandWithOidRef, BrandWithStrRef>>, <<BrandWithStrRef>>,
                <<BrandPlain>>}

InitPipeline ==
    /\ pc = "load_receipts"
    /\ script \in {"abc", "gzip"}
    /\ tz \in TzOffsets
    /\ inputs \in [receipts : ReceiptsFiles, users : UsersFiles, brands : BrandsFiles]
    /\ glob = EmptyMap /\ dataframes = EmptyMap /\ loop = <<>> /\ exc = "none"
    /\ file_path = <<>> /\ lines = <<>>
    /\ df = Idle /\ value = Idle /\ out = Idle /\ table = Idle

Untouched == <<script, tz, file_path, lines, df, value, out, table, inputs>>

\* name = load_gzipped_json(path): bind the frame, or end with the exception
LoadInto(name, path, ls, nextpc) ==
    LET r == load_gzipped_json(path, ls) IN
    IF IsRaise(r)
    THEN /\ exc' = r.e
         /\ pc' = "raised"
         /\ UNCHANGED glob
    ELSE /\ glob' = (name :> r) @@ glob
         /\ pc' = nextpc
         /\ UNCHANGED exc

LoadReceipts ==
    /\ pc = "load_receipts"
    /\ LoadInto("receipts_df", file_paths.receipts, inputs.receipts,
                IF script = "abc" THEN "extract_items" ELSE "load_users")
    /\ UNCHANGED <<Untouched, dataframes, loop>>

LoadUsers ==
    /\ pc = "load_users"
    /\ LoadInto("users_df", file_paths.users, inputs.users, "load_brands")
    /\ UNCHANGED <<Untouched, dataframes, loop>>

LoadBrands ==
    /\ pc = "load_brands"
    /\ LoadInto("brands_df", file_paths.brands, inputs.brands,
                IF script = "abc" THEN "extract_cpg" ELSE "extract_items")
    /\ UNCHANGED <<Untouched, dataframes, loop>>

\* series = frame[col]; extracted = pd.DataFrame(series);
\* frame = frame.drop(col, axis=1)
ExtractFrame(series_name, frame_name, source_name, col, nextpc) ==
    LET series == GetColumn(glob[source_name], col) IN
    IF IsRaise(series)
    THEN /\ exc' = series.e
         /\ pc' = "raised"
         /\ UNCHANGED glob
    ELSE /\ glob' = (series_name :> series)
                    @@ (frame_name :> FrameOfSeries(series))
                    @@ (source_name :> DropColumn(glob[source_name], col))
                    @@ glob
         /\ pc' = nextpc
         /\ UNCHANGED exc

\* abc.py: the receipts' item lists become a frame of their own
ExtractItemsAbc ==
    /\ pc = "extract_items" /\ script = "abc"
    /\ ExtractFrame("rewardsReceiptItemList", "rewardsReceiptItemList_df",
                    "receipts_df", "rewardsReceiptItemList", "load_users")
    /\ UNCHANGED <<Untouched, dataframes, loop>>

\* abc.py: the brands' cpg references become a frame of their own
ExtractCpg ==
    /\ pc = "extract_cpg" /\ script = "abc"
    /\ ExtractFrame("cpg", "cpg_df", "brands_df", "cpg", "build")
    /\ UNCHANGED <<Untouched, dataframes, loop>>

\* import gzip.py: the column itself (a Series) is kept when the receipts
\* have it, an empty frame otherwise
ExtractItemsGzip ==
    /\ pc = "extract_items" /\ script = "gzip"
    /\ glob' = IF "rewardsReceiptItemList" \in glob["receipts_df"].columns
               THEN ("rewardsReceiptItemList_df" :>
                        GetColumn(glob["receipts_df"], "rewardsReceiptItemList"))
                    @@ ("receipts_df" :>
                        DropColumn(glob["receipts_df"], "rewardsReceiptItemList"))
                    @@ glob
               ELSE ("rewardsReceiptItemList_df" :> Frame({}, <<>>)) @@ glob
    /\ pc' = "build"
    /\ UNCHANGED <<Untouched, dataframes, loop, exc>>

\* the keys of `dataframes` in insertion order, and the module-level name
\* bound to the same object as each entry
DataframeKeys(scr) ==
    IF scr = "abc"
    THEN <<"receipts", "users", "brands", "rewardsReceiptItemList_df", "cpg_df">>
    ELSE <<"receipts", "users", "brands", "rewardsReceiptItemList">>

GlobalOf(key) ==
    CASE key = "receipts" -> "receipts_df"
      [] key = "users" -> "users_df"
      [] key = "brands" -> "brands_df"
      [] key = "rewardsReceiptItemList" -> "rewardsReceiptItemList_df"
      [] OTHER -> key

BuildDataframes ==
    /\ pc = "build"
    /\ dataframes' = [key \in SeqRange(DataframeKeys(script)) |-> glob[GlobalOf(key)]]
    /\ loop' = DataframeKeys(script)
    /\ pc' = "convert"
    /\ UNCHANGED <<Untouched, glob, exc>>

\* one iteration of `for name, df in dataframes.items()`: the object is
\* changed in place, so the module-level name sees the change too
ConvertNext ==
    /\ pc = "convert"
    /\ loop # <<>>
    /\ LET name == Head(loop)
           r == apply_conversions(dataframes[name], script, tz)
       IN  /\ glob' = [glob EXCEPT ![GlobalOf(name)] = r.df]
           /\ dataframes' = [dataframes EXCEPT ![name] = r.df]
           /\ exc' = r.exc
           /\ IF r.exc # "none"
              THEN pc' = "raised" /\ UNCHANGED loop
              ELSE /\ loop' = Tail(loop)
                   /\ pc' = IF Tail(loop) = <<>> THEN "report" ELSE "convert"
    /\ UNCHANGED Untouched

\* abc.py: print(cpg_df['cpg_ref'].value_counts()); print(rewardsReceiptItemList)
ReportAbc ==
    /\ pc = "report" /\ script = "abc"
    /\ LET col == GetColumn(glob["cpg_df"], "cpg_ref") IN
         IF IsRaise(col)
         THEN exc' = col.e /\ pc' = "raised"
         ELSE pc' = "done" /\ UNCHANGED exc
    /\ UNCHANGED <<Untouched, glob, dataframes, loop>>

\* import gzip.py: head(10) and shape of every entry
PrintGzip ==
    /\ pc = "report" /\ script = "gzip"
    /\ pc' = "done"
    /\ UNCHANGED <<Untouched, glob, dataframes, loop, exc>>

NextPipeline ==
    \/ LoadReceipts \/ LoadUsers \/ LoadBrands
    \/ ExtractItemsAbc \/ ExtractCpg \/ ExtractItemsGzip
    \/ BuildDataframes \/ ConvertNext
    \/ ReportAbc \/ PrintGzip

SpecPipeline == InitPipeline /\ [][NextPipeline]_vars

(***************************************************************************)
(* Properties of load_gzipped_json (SpecLoad)                              *)
(***************************************************************************)
NonBlankLines == {i \in 1..Len(lines) : strip(lines[i]) # <<>>}
ObjectLines == {i \in 1..Len(lines) : isdict(json_loads(lines[i]))}
MalformedLines == {i \in NonBlankLines : IsRaise(json_loads(lines[i]))}

\* the values of the lines that parse as JSON objects, in input order
RECURSIVE ObjectsOf(_)
ObjectsOf(ls) ==
    IF ls = <<>> THEN <<>>
    ELSE IF isdict(json_loads(Head(ls)))
    THEN <<json_loads(Head(ls))>> \o ObjectsOf(Tail(ls))
    ELSE ObjectsOf(Tail(ls))

\* C1: when every (non-blank) line of the file is a valid JSON object, the
\* returned table has one row per object and its column set is the union of
\* the objects' keys.
C1_RowsAndColumns ==
    (pc = "load.done" /\ NonBlankLines \subseteq ObjectLines)
    => /\ isframe(df)
       /\ Len(df.rows) = Cardinality(NonBlankLines)
       /\ df.columns = UNION {DOMAIN json_loads(lines[i]).d : i \in NonBlankLines}

C1_Witness ==
    /\ pc = "load.done"
    /\ Len(lines) = 3
    /\ NonBlankLines = 1..3
    /\ NonBlankLines \subseteq ObjectLines
    /\ isframe(df)
    /\ Len(df.rows) = 3
    /\ df.columns = {"a", "b", "_id"}

C3_MalformedLinesDropped ==
    (pc = "load.done" /\ MalformedLines # {})
    => /\ isframe(df)
       /\ df = DataFrameOf(ObjectsOf(lines))

(***************************************************************************)
(* Properties of the per-value conversions (SpecConvert)                   *)
(***************************************************************************)
\* {"$oid": S}
IsObjectIdRef(v) == isdict(v) /\ DOMAIN v.d = {"$oid"}
\* {"$date": N}, N an integer
IsEncodedDate(v) == isdict(v) /\ DOMAIN v.d = {"$date"} /\ v.d["$date"].t = "int"
\* {"$id": {"$oid": S}, "$ref": R}
IsCrossRefOid(v) ==
    /\ isdict(v) /\ DOMAIN v.d = {"$id", "$ref"}
    /\ v.d["$ref"].t = "str"
    /\ IsObjectIdRef(v.d["$id"]) /\ v.d["$id"].d["$oid"].t = "str"
\* {"$id": S, "$ref": R}, S a bare string
IsCrossRefStr(v) ==
    /\ isdict(v) /\ DOMAIN v.d = {"$id", "$ref"}
    /\ v.d["$ref"].t = "str"
    /\ v.d["$id"].t = "str"
RefIdOf(v) == IF isdict(v.d["$id"]) THEN v.d["$id"].d["$oid"] ELSE v.d["$id"]

\* C4: convert_oid returns S for a value shaped {"$oid": S} and returns
\* every other value unchanged.
C4_ConvertOidExact ==
    pc = "convert_oid.done"
    => out = (IF IsObjectIdRef(value) THEN value.d["$oid"] ELSE value)

\* C5 (as claimed): convert_cpg turns {"$id": {"$oid": S}, "$ref": R} and
\* {"$id": S, "$ref": R} into the pair {ref_id: S, ref_collection: R}.
C5_RefPairAsClaimed ==
    (pc = "convert_cpg.done" /\ (IsCrossRefOid(value) \/ IsCrossRefStr(value)))
    => out = Dict(("ref_id" :> RefIdOf(value)) @@ ("ref_collection" :> value.d["$ref"]))

\* C5 (amended): convert_cpg turns {"$id": {"$oid": S}, "$ref": R} and
\* {"$id": S, "$ref": R} into the pair {cpg_id: S, cpg_ref: R}.
C5_CpgPair ==
    (pc = "convert_cpg.done" /\ (IsCrossRefOid(value) \/ IsCrossRefStr(value)))
    => out = Dict(("cpg_id" :> RefIdOf(value)) @@ ("cpg_ref" :> value.d["$ref"]))

C5_Witness ==
    /\ pc = "convert_cpg.done"
    /\ IsCrossRefOid(value)
    /\ out = Dict(("cpg_id" :> Str("abc123")) @@ ("cpg_ref" :> Str("Cogs")))

\* C6: for {"$date": N}, N >= 0, convert_date returns the timestamp of the
\* instant N milliseconds after the epoch (epoch seconds floor(N/1000)),
\* whatever the environment.
C6_DateIsEpochInstant ==
    (pc = "convert_date.done" /\ IsEncodedDate(value) /\ value.d["$date"].n >= 0)
    => /\ out.t = "datetime"
       /\ out.wall = value.d["$date"].n \div 1000

\* C7: no per-value conversion raises, and a value that does not fully match
\* the encoded shape is returned unchanged.
C7_ConversionsTotal ==
    /\ pc \in {"convert_oid.done", "convert_date.done", "convert_cpg.done"}
         => ~IsRaise(out)
    /\ (pc = "convert_oid.done" /\ ~IsObjectIdRef(value)) => out = value
    /\ (pc = "convert_date.done" /\ ~IsEncodedDate(value)) => out = value
    /\ (pc = "convert_cpg.done" /\ ~IsCrossRefOid(value) /\ ~IsCrossRefStr(value))
         => out = value

(***************************************************************************)
(* Properties of apply_conversions (SpecApply)                             *)
(***************************************************************************)
\* the conversion configured for a column of a script, "none" when it has none
KindOf(scr, c) ==
    IF c \in SeqRange(oid_columns) THEN "oid"
    ELSE IF c \in SeqRange(date_columns) THEN "date"
    ELSE IF scr = "abc" /\ c = "cpg" THEN "cpg"
    ELSE "none"

ConvertedCell(scr, c, old, tzo) ==
    CASE KindOf(scr, c) = "oid" -> convert_oid(old)
      [] KindOf(scr, c) = "date" -> convert_date(old, tzo)
      [] KindOf(scr, c) = "cpg" -> convert_cpg(old)
      [] OTHER -> old

\* C9: apply_conversions keeps the rows, their order and the columns, leaves
\* every cell of a non-configured column as it was, and rewrites a cell of a
\* configured column only to the conversion of that cell's own value; a
\* configured column the table lacks is no error (the only exception is one
\* a conversion of a present cell raised).
C9_ApplyConversionsFrame ==
    pc = "apply.done"
    => /\ isframe(df)
       /\ df.columns = table.columns
       /\ Len(df.rows) = Len(table.rows)
       /\ \A i \in 1..Len(table.rows) : \A c \in table.columns :
            LET old == table.rows[i][c]
                new == df.rows[i][c]
            IN  \/ new = ConvertedCell(script, c, old, tz)
                \/ exc # "none" /\ KindOf(script, c) # "none" /\ new = old
       /\ exc # "none" =>
            \E i \in 1..Len(table.rows) : \E c \in table.columns :
                IsRaise(ConvertedCell(script, c, table.rows[i][c], tz))

C9_Witness ==
    /\ pc = "apply.done"
    /\ exc = "none"
    /\ {"_id", "name", "cpg"} \subseteq table.columns
    /\ "userId" \notin table.columns
    /\ Len(table.rows) = 2
    /\ table.rows[1]["_id"] = Oid("abc123")
    /\ df.rows[1]["_id"] = Str("abc123")
    /\ df.rows[2]["name"] = Oid("def456")

(***************************************************************************)
(* Properties of the scripts (SpecPipeline)                                *)
(***************************************************************************)
ReceiptsLoaded == load_gzipped_json(file_paths.receipts, inputs.receipts)
UsersLoaded == load_gzipped_json(file_paths.users, inputs.users)
BrandsLoaded == load_gzipped_json(file_paths.brands, inputs.brands)

\* the entries of an extracted object, in order
EntriesOf(obj, col) ==
    IF isframe(obj) THEN [i \in 1..Len(obj.rows) |-> obj.rows[i][col]] ELSE obj.vals

\* `extracted` holds column `col` of `src` row by row, and `rest` is `src`
\* without that column
IsExtraction(src, col, extracted, rest) ==
    /\ EntriesOf(extracted, col) = [i \in 1..Len(src.rows) |-> src.rows[i][col]]
    /\ isframe(rest)
    /\ rest.columns = src.columns \ {col}
    /\ Len(rest.rows) = Len(src.rows)
    /\ \A i \in 1..Len(src.rows) : \A c \in rest.columns :
          rest.rows[i][c] = src.rows[i][c]

BeforeConversions == pc \notin {"convert", "report", "done", "raised"}

\* C8: once a nested column has been extracted, the extracted object has one
\* entry per row of the loaded table, the i-th being the i-th row's value of
\* the column, and the table is the loaded one without that column.
C8_ExtractionTotalOrdered ==
    BeforeConversions
    => /\ ("rewardsReceiptItemList_df" \in DOMAIN glob
           /\ "rewardsReceiptItemList" \in ReceiptsLoaded.columns)
          => IsExtraction(ReceiptsLoaded, "rewardsReceiptItemList",
                          glob["rewardsReceiptItemList_df"], glob["receipts_df"])
       /\ "cpg_df" \in DOMAIN glob
          => IsExtraction(BrandsLoaded, "cpg", glob["cpg_df"], glob["brands_df"])

C8_Witness ==
    /\ pc = "build"
    /\ script = "abc"
    /\ Len(ReceiptsLoaded.rows) = 2
    /\ Cardinality(ReceiptsLoaded.columns) = 3
    /\ glob["rewardsReceiptItemList_df"].rows[1]["rewardsReceiptItemList"]
         = List(<<Dict("barcode" :> Str("b1"))>>)
    /\ glob["rewardsReceiptItemList_df"].rows[2]["rewardsReceiptItemList"] = NaN
    /\ glob["receipts_df"].columns = {"_id", "createdDate"}
    /\ Len(glob["cpg_df"].rows) = 2
    /\ glob["brands_df"].columns = {"_id", "name"}

\* the three files load and hold the nested columns
NestedColumnsPresent ==
    /\ isframe(ReceiptsLoaded) /\ isframe(UsersLoaded) /\ isframe(BrandsLoaded)
    /\ "rewardsReceiptItemList" \in ReceiptsLoaded.columns
    /\ "cpg" \in BrandsLoaded.columns

\* C10: when the three files load and hold the nested columns, each script
\* runs from its loads to its last print without raising.
C10_PipelineNeverRaises ==
    NestedColumnsPresent => (pc # "raised" /\ exc = "none")

\* abc.py alone: the same, for the script that reads cpg_df['cpg_ref']
C10_AbcNeverRaises ==
    (script = "abc" /\ NestedColumnsPresent) => (pc # "raised" /\ exc = "none")

====
